---- MODULE Spec2Model ----
(***************************************************************************)
(* A model of the octree voxel store: the packed IndexPath word, the       *)
(* fixed-point Bounds, the Node tree with its set/get, and the chunk's     *)
(* depth-first leaf iterator.                                              *)
(*                                                                         *)
(* A u64 is modelled as the set of the positions of its 1 bits (TLC's      *)
(* integers are 32 bits wide), so shifts, masks and leading_zeros are the  *)
(* ones of the 64-bit word.  A Bounds coordinate is an integer counted in  *)
(* units of 2^UnitShift, because MAX_WIDTH = 2^31 itself is one more than  *)
(* TLC's largest integer; every coordinate the program forms by halving    *)
(* the unit cube at most MAX_SIZE times is a multiple of 2^10.             *)
(***************************************************************************)
EXTENDS Integers, Sequences, FiniteSets, TLC

VARIABLES
    word,      \* IndexPath machine: the path value the caller holds
    call,      \* IndexPath machine: the last IndexPath call and its outcome
    chunk,     \* Chunk<T>: [root |-> Node]
    last,      \* the last call made on the chunk, with its arguments
    iter,      \* ChunkLeafIterator: [stack, index_path, bounds, dir]
    itStatus,  \* "none" | "active" | "ended" | "aborted"
    emitted,   \* the voxels next() has returned so far, in order
    b1, b2,    \* Bounds machine: the two Bounds under comparison
    rel,       \* Bounds machine: the last result of b1.intersects(b2)
    dval,      \* Direction machine: the Direction the caller holds
    dcall,     \* Direction machine: the last Direction call and its outcome
    oracle,    \* WorldBuilder: the oracle the builder was made with
    build,     \* WorldBuilder: the outcome of the last build call
    grid,      \* Grid<T>: [lod, data, writes, oob], or NoGrid
    git,       \* GridIterator / GridGroupedIterator: [kind, location, ended]
    gitems,    \* the items the grid iterator has returned so far, in order
    vox,       \* Voxel machine: the Voxel the caller holds, or NoVoxel
    vsteps,    \* Voxel machine: the directions of the get_child calls made
    vcall,     \* Voxel machine: the last call and the voxel it was made on
    pword,     \* path iteration: the TopDownIndexPath being built, then iterated
    pbuilt,    \* path iteration: how pword was built, [mode, dirs]
    pyield     \* path iteration: what next() has returned, [active, start, items, ended]

vars == <<word, call, chunk, last, iter, itStatus, emitted, b1, b2, rel,
          dval, dcall, oracle, build, grid, git, gitems, vox, vsteps, vcall,
          pword, pbuilt, pyield>>

----------------------------------------------------------------------------
(* Direction (direction.rs)                                                *)

FrontLeftBottom == 0
FrontRightBottom == 1
RearLeftBottom == 2
RearRightBottom == 3
FrontLeftTop == 4
FrontRightTop == 5
RearLeftTop == 6
RearRightTop == 7

Dirs == 0..7

is_max_x(d) == (d % 2) # 0
is_max_y(d) == ((d \div 2) % 2) # 0
is_max_z(d) == ((d \div 4) % 2) # 0

\* impl From<u8> for Direction: val & 0b111
Direction_from(n) == n % 8

\* The values of a u8 argument.
U8_MAX == 255

Direction_opposite(d) == Direction_from(7 - d)

\* Direction::breakdown: the triple it returns, in the order it returns it.
Direction_breakdown(d) ==
    LET val == d
        z == val % 2
        y == (val \div 2) % 2
        x == val \div 4
    IN  <<x, y, z>>

----------------------------------------------------------------------------
(* u64 words as sets of bit positions                                      *)

Bits == 0..63

U64_MAX == Bits

\* The word of a small natural number (n < 2^6).
U64(n) == {i \in 0..5 : (n \div (2^i)) % 2 = 1}

\* `w as u8 & 0b111`, as a number.
Low3(w) ==
    (IF 0 \in w THEN 1 ELSE 0) + (IF 1 \in w THEN 2 ELSE 0) + (IF 2 \in w THEN 4 ELSE 0)

Shl(w, n) == {b + n : b \in {c \in w : c + n <= 63}}
Shr(w, n) == {b - n : b \in {c \in w : c >= n}}
BitAnd(a, b) == a \cap b
BitOr(a, b) == a \cup b
BitNot(a) == Bits \ a

HighBit(w) == CHOOSE b \in w : \A c \in w : c <= b

leading_zeros(w) == IF w = {} THEN 64 ELSE 63 - HighBit(w)

----------------------------------------------------------------------------
(* IndexPath (index_path.rs).  An operation that can fail its assertion    *)
(* returns a record: abort, or the path / direction it returns.  The zero  *)
(* word stands where no path is returned.                                  *)

MAX_SIZE == 21

NoPath == {}

Aborted == [abort |-> TRUE, path |-> NoPath, dir |-> 0]
RetPath(w) == [abort |-> FALSE, path |-> w, dir |-> 0]
RetDir(d) == [abort |-> FALSE, path |-> NoPath, dir |-> d]

new == U64(1)

is_empty(w) == w = U64(1)

is_full(w) == Shr(w, 63) = U64(1)

peek(w) ==
    IF is_empty(w) THEN Aborted
    ELSE RetDir(Direction_from(Low3(w)))

pop_unasserted(w) == RetPath(Shr(w, 3))

pop(w) ==
    IF is_empty(w) THEN Aborted
    ELSE RetPath(Shr(w, 3))

push_shift_two(w, octant) ==
    IF is_full(w) THEN Aborted
    ELSE RetPath(BitOr(Shl(w, 2), U64(octant)))

push(w, octant) ==
    IF is_full(w) THEN Aborted
    ELSE RetPath(BitOr(Shl(w, 3), U64(octant)))

put_unasserted(w, octant) ==
    LET num_bits == 64 - leading_zeros(w) - 1
        cleared == BitAnd(w, BitNot(Shl(U64(7), num_bits)))
    IN  RetPath(BitOr(cleared, Shl(BitOr(U64(octant), U64(8)), num_bits)))

put(w, octant) ==
    IF is_full(w) THEN Aborted
    ELSE LET num_bits == 64 - leading_zeros(w) - 1
             cleared == BitAnd(w, BitNot(Shl(U64(7), num_bits)))
         IN  RetPath(BitOr(cleared, Shl(BitOr(U64(octant), U64(8)), num_bits)))

\* 64 - leading_zeros - 4 is a u32: below zero the subtraction overflows.
get(w) ==
    IF is_empty(w) THEN Aborted
    ELSE LET num_bits == 64 - leading_zeros(w) - 4
         IN  IF num_bits < 0 THEN Aborted
             ELSE RetDir(Direction_from(Low3(Shr(w, num_bits))))

del(w) ==
    IF is_empty(w) THEN Aborted
    ELSE LET num_bits == 64 - leading_zeros(w) - 1
             dir_bin == BitAnd(w, BitNot(Shl(U64_MAX, num_bits)))
         IN  RetPath(BitOr(dir_bin, Shl(U64(1), num_bits)))

len_of_empty_slots(w) ==
    LET num_empty_slots == leading_zeros(w) \div 3
    IN  num_empty_slots

len(w) ==
    LET num_empty_slots == leading_zeros(w) \div 3
    IN  MAX_SIZE - num_empty_slots

\* impl Iterator for TopDownIndexPath: next() and the path it leaves in self.
NextOut(some, dir, path) == [some |-> some, dir |-> dir, path |-> path]

TopDownIndexPath_next_reads_top(w) ==
    IF is_empty(w) THEN NextOut(FALSE, FrontLeftBottom, w)
    ELSE NextOut(TRUE, get(w).dir, pop(w).path)

TopDownIndexPath_next(w) ==
    IF is_empty(w) THEN NextOut(FALSE, FrontLeftBottom, w)
    ELSE NextOut(TRUE, peek(w).dir, pop(w).path)

----------------------------------------------------------------------------
(* Bounds (bounds.rs).  Coordinates are counted in units of 2^UnitShift.   *)

UnitShift == 1

MAX_WIDTH == 2^(31 - UnitShift)

Bounds_new == [x |-> 0, y |-> 0, z |-> 0, width |-> MAX_WIDTH]

Bounds_half_before_shift(b, dir) ==
    [x |-> IF is_max_x(dir) THEN b.x + b.width ELSE b.x,
     y |-> IF is_max_y(dir) THEN b.y + b.width ELSE b.y,
     z |-> IF is_max_z(dir) THEN b.z + b.width ELSE b.z,
     width |-> b.width \div 2]

Bounds_half(b, dir) ==
    LET width == b.width \div 2
    IN  [x |-> IF is_max_x(dir) THEN b.x + width ELSE b.x,
         y |-> IF is_max_y(dir) THEN b.y + width ELSE b.y,
         z |-> IF is_max_z(dir) THEN b.z + width ELSE b.z,
         width |-> width]

\* The u32 subtractions do not underflow when b is the `dir` half of its parent.
Bounds_merge(b, dir) ==
    [x |-> IF is_max_x(dir) THEN b.x - b.width ELSE b.x,
     y |-> IF is_max_y(dir) THEN b.y - b.width ELSE b.y,
     z |-> IF is_max_z(dir) THEN b.z - b.width ELSE b.z,
     width |-> b.width * 2]

Bounds_intersects_closed(self, other) ==
    IF \/ (self.x + self.width < other.x \/ other.x + other.width < self.x)
       \/ (self.y + self.width < other.y \/ other.y + other.width < self.y)
       \/ (self.z + self.width < other.z \/ other.z + other.width < self.z)
    THEN "Disjoint"
    ELSE IF /\ (other.x >= self.x /\ other.x + other.width <= self.x + self.width)
            /\ (other.y >= self.y /\ other.y + other.width <= self.y + self.width)
            /\ (other.z >= self.z /\ other.z + other.width <= self.z + self.width)
    THEN "Contain"
    ELSE "Intersect"

Bounds_intersects(self, other) ==
    IF \/ (self.x + self.width <= other.x \/ other.x + other.width <= self.x)
       \/ (self.y + self.width <= other.y \/ other.y + other.width <= self.y)
       \/ (self.z + self.width <= other.z \/ other.z + other.width <= self.z)
    THEN "Disjoint"
    ELSE IF /\ (other.x >= self.x /\ other.x + other.width <= self.x + self.width)
            /\ (other.y >= self.y /\ other.y + other.width <= self.y + self.width)
            /\ (other.z >= self.z /\ other.z + other.width <= self.z + self.width)
    THEN "Contain"
    ELSE "Intersect"

\* impl From<IndexPath> for Bounds: the path's iterator (peek, then pop, until
\* the path is empty) drives one half per direction.
RECURSIVE Bounds_from_loop(_, _)
Bounds_from_loop(index_path, bounds) ==
    IF is_empty(index_path) THEN bounds
    ELSE Bounds_from_loop(pop(index_path).path,
                          Bounds_half(bounds, peek(index_path).dir))

Bounds_from(index_path) == Bounds_from_loop(index_path, Bounds_new)

\* Bounds::get_position_with_gridsize: x * gridsize / MAX_WIDTH in u64.  For
\* a gridsize that divides MAX_WIDTH the quotient is x / (MAX_WIDTH /
\* gridsize), which needs no 64-bit product.
ToGrid(n, gridsize) ==
    IF MAX_WIDTH % gridsize = 0 THEN n \div (MAX_WIDTH \div gridsize)
    ELSE (n * gridsize) \div MAX_WIDTH

Bounds_get_position_with_gridsize(b, gridsize) ==
    <<ToGrid(b.x, gridsize), ToGrid(b.y, gridsize), ToGrid(b.z, gridsize)>>

----------------------------------------------------------------------------
(* Node and Chunk (node.rs, chunk.rs).  A DirectionMapper is a tuple       *)
(* indexed by direction + 1; an Option<Node> is <<>> or <<node>>.          *)

Default == 0

Node_new_all(item) ==
    [data |-> [i \in 1..8 |-> item], children |-> [i \in 1..8 |-> <<>>]]

\* child.data.data.windows(2).all(|w| w[0] == w[1])
AllEqual(data) == \A i \in 1..7 : data[i] = data[i + 1]

RECURSIVE Node_get(_, _)
Node_get(node, index_path) ==
    LET dir == peek(index_path).dir
        rest == pop(index_path).path
    IN  IF is_empty(rest) THEN node.data[dir + 1]
        ELSE IF node.children[dir + 1] # <<>>
        THEN Node_get(node.children[dir + 1][1], rest)
        ELSE node.data[dir + 1]

RECURSIVE Node_set_no_merge(_, _, _)
Node_set_no_merge(node, index_path, data) ==
    LET dir == peek(index_path).dir
        rest == pop(index_path).path
    IN  IF is_empty(rest) THEN [node EXCEPT !.data[dir + 1] = data]
        ELSE LET child == IF node.children[dir + 1] # <<>>
                          THEN node.children[dir + 1][1]
                          ELSE Node_new_all(node.data[dir + 1])
             IN  [node EXCEPT !.children[dir + 1] =
                                  <<Node_set_no_merge(child, rest, data)>>]

RECURSIVE Node_set(_, _, _)
Node_set(node, index_path, data) ==
    LET dir == peek(index_path).dir
        rest == pop(index_path).path
    IN  IF is_empty(rest) THEN [node EXCEPT !.data[dir + 1] = data]
        ELSE LET child == IF node.children[dir + 1] # <<>>
                          THEN node.children[dir + 1][1]
                          ELSE Node_new_all(node.data[dir + 1])
                 set == Node_set(child, rest, data)
             IN  IF AllEqual(set.data)
                 THEN [node EXCEPT !.data[dir + 1] = set.data[1],
                                   !.children[dir + 1] = <<>>]
                 ELSE [node EXCEPT !.children[dir + 1] = <<set>>]

Chunk_new == [root |-> Node_new_all(Default)]

Chunk_get(c, index_path) == Node_get(c.root, index_path)

Chunk_set(c, index_path, value) == [root |-> Node_set(c.root, index_path, value)]

\* The path whose octants, read from the root down, are those of seq: built as
\* the tests build it, IndexPath::new() and one push per octant, deepest first.
RECURSIVE PathOf(_)
PathOf(seq) ==
    IF seq = <<>> THEN new
    ELSE push(PathOf(Tail(seq)), Head(seq)).path

\* The node a reference points to, the reference being the octants from the
\* root down to the node.
RECURSIVE NodeAt(_, _)
NodeAt(node, addr) ==
    IF addr = <<>> THEN node
    ELSE NodeAt(node.children[Head(addr) + 1][1], Tail(addr))

----------------------------------------------------------------------------
(* Voxel (voxel.rs) and the leaf iterator (iterators/leaf.rs).  A          *)
(* reference &Node is the node's address in the chunk: the octants from    *)
(* the root down to it.                                                    *)

NoVoxel == [node |-> <<>>, index_path |-> NoPath, bounds |-> Bounds_new]

Voxel_is_root(v) == is_empty(v.index_path)

\* get_value of the root voxel is todo!(): it aborts.
Voxel_get_value(c, v) ==
    IF Voxel_is_root(v) THEN [abort |-> TRUE, value |-> Default]
    ELSE [abort |-> FALSE,
          value |-> NodeAt(c.root, v.node).data[get(v.index_path).dir + 1]]

Voxel_is_leaf(c, v) ==
    LET node == NodeAt(c.root, v.node)
    IN  IF Voxel_is_root(v) THEN \A i \in 1..8 : node.children[i] = <<>>
        ELSE node.children[get(v.index_path).dir + 1] = <<>>

\* The root voxel of a chunk: the root node, the empty path, the unit cube.
Voxel_root == [node |-> <<>>, index_path |-> new, bounds |-> Bounds_new]

VoxelOut(abort, v) == [abort |-> abort, voxel |-> v]

Voxel_get_child_keeps_node(c, v, dir) ==
    LET path == put(v.index_path, dir)
        down == [node |-> v.node, index_path |-> path.path,
                 bounds |-> Bounds_half(v.bounds, dir)]
    IN  IF Voxel_is_root(v) THEN VoxelOut(path.abort, down)
        ELSE IF NodeAt(c.root, v.node).children[get(v.index_path).dir + 1] # <<>>
        THEN VoxelOut(path.abort, down)
        ELSE VoxelOut(FALSE, v)

Voxel_get_child(c, v, dir) ==
    LET path == put(v.index_path, dir)
        bounds == Bounds_half(v.bounds, dir)
    IN  IF Voxel_is_root(v)
        THEN VoxelOut(path.abort,
                 [node |-> v.node, index_path |-> path.path, bounds |-> bounds])
        ELSE IF NodeAt(c.root, v.node).children[get(v.index_path).dir + 1] # <<>>
        THEN VoxelOut(path.abort,
                 [node |-> Append(v.node, get(v.index_path).dir),
                  index_path |-> path.path, bounds |-> bounds])
        ELSE VoxelOut(FALSE, v)

NoIter == [stack |-> <<>>, index_path |-> new, bounds |-> Bounds_new, dir |-> 0]

Chunk_iter_leaf ==
    [stack |-> <<[dir |-> Direction_from(0), node |-> <<>>]>>,
     index_path |-> new,
     bounds |-> Bounds_new,
     dir |-> 0]

IterOut(it, kind, voxel) == [iter |-> it, kind |-> kind, voxel |-> voxel]

\* One call of next(): the loop runs until it returns Some(voxel) or None, or
\* an assertion of put / del aborts it.
RECURSIVE ChunkLeafIterator_next(_, _)
ChunkLeafIterator_next(c, it) ==
    IF it.stack = <<>> THEN IterOut(it, "None", NoVoxel)
    ELSE
      LET tuple == it.stack[Len(it.stack)]
          fromdir == tuple.dir
          node == NodeAt(c.root, tuple.node)
      IN
      IF it.dir >= 8 THEN
        LET popped == [it EXCEPT !.stack = SubSeq(it.stack, 1, Len(it.stack) - 1)]
            deleted == del(it.index_path)
        IN  IF popped.stack = <<>> THEN IterOut(popped, "None", NoVoxel)
            ELSE IF deleted.abort THEN IterOut(popped, "abort", NoVoxel)
            ELSE ChunkLeafIterator_next(c,
                   [popped EXCEPT !.index_path = deleted.path,
                                  !.bounds = Bounds_merge(it.bounds, fromdir),
                                  !.dir = fromdir + 1])
      ELSE IF node.children[it.dir + 1] # <<>> THEN
        LET dir == Direction_from(it.dir)
            pushed == [it EXCEPT !.stack =
                         Append(it.stack, [dir |-> dir, node |-> Append(tuple.node, dir)])]
            path == put(it.index_path, dir)
        IN  IF path.abort THEN IterOut(pushed, "abort", NoVoxel)
            ELSE ChunkLeafIterator_next(c,
                   [pushed EXCEPT !.index_path = path.path,
                                  !.bounds = Bounds_half(it.bounds, dir),
                                  !.dir = 0])
      ELSE
        LET dir == it.dir
            advanced == [it EXCEPT !.dir = dir + 1]
            path == put(it.index_path, Direction_from(dir))
        IN  IF path.abort THEN IterOut(advanced, "abort", NoVoxel)
            ELSE IterOut(advanced, "Some",
                         [node |-> tuple.node,
                          index_path |-> path.path,
                          bounds |-> Bounds_half(it.bounds, Direction_from(dir))])

----------------------------------------------------------------------------
(* Bounds::from_discrete_grid: n * MAX_WIDTH / gridsize in u64, computed   *)
(* here without forming the 64-bit product.                                *)

ScaleToWidth(n, gridsize) ==
    n * (MAX_WIDTH \div gridsize) + (n * (MAX_WIDTH % gridsize)) \div gridsize

Bounds_from_discrete_grid(location, width, gridsize) ==
    [x |-> ScaleToWidth(location[1], gridsize),
     y |-> ScaleToWidth(location[2], gridsize),
     z |-> ScaleToWidth(location[3], gridsize),
     width |-> ScaleToWidth(width, gridsize)]

----------------------------------------------------------------------------
(* WorldBuilder (world_builder.rs).  An oracle is a record; calling it     *)
(* gives [surface |-> TRUE] for Isosurface::Surface and                    *)
(* [surface |-> FALSE, value |-> v] for Isosurface::Uniform(v).            *)

Uniform(v) == [surface |-> FALSE, value |-> v]
Surface == [surface |-> TRUE, value |-> Default]

\* The closure of tests::test_cube, for a target cube.
CubeOracle(target) == [kind |-> "cube", target |-> target, value |-> 1, levels |-> 0]
\* |_, _| Isosurface::Uniform(v)
UniformOracle(v) == [kind |-> "uniform", target |-> Bounds_new, value |-> v, levels |-> 0]
\* |_, _| Isosurface::Surface
SurfaceOracle == [kind |-> "surface", target |-> Bounds_new, value |-> Default, levels |-> 0]
\* Surface on the cubes at the origin that are `levels` halvings deep or less,
\* Uniform(1) on the deeper cubes at the origin, Uniform(0) elsewhere.
SpineOracle(levels) == [kind |-> "spine", target |-> Bounds_new, value |-> 1, levels |-> levels]
\* Surface on every cube that is `levels` halvings deep or less, Uniform(v)
\* on the deeper ones.
LevelOracle(levels, v) == [kind |-> "level", target |-> Bounds_new, value |-> v, levels |-> levels]

Oracle_call(o, bounds) ==
    IF o.kind = "cube"
    THEN LET r == Bounds_intersects(o.target, bounds)
         IN  IF r = "Disjoint" THEN Uniform(0)
             ELSE IF r = "Contain" THEN Uniform(1)
             ELSE Surface
    ELSE IF o.kind = "uniform" THEN Uniform(o.value)
    ELSE IF o.kind = "surface" THEN Surface
    ELSE IF o.kind = "level"
    THEN (IF bounds.width >= MAX_WIDTH \div (2^o.levels) THEN Surface ELSE Uniform(o.value))
    ELSE IF bounds.x = 0 /\ bounds.y = 0 /\ bounds.z = 0
         THEN (IF bounds.width >= MAX_WIDTH \div (2^o.levels) THEN Surface ELSE Uniform(1))
         ELSE Uniform(0)

\* The recursion depth at which the thread's stack is exhausted.  The oracles
\* of the model either stop the descent above it or never stop it.
StackFrames == 24

\* The Uniform arm: node.data[dir] = value; *subnode = None.
Build_uniform_keeps_data(node, dir, value) ==
    [node EXCEPT !.children[dir + 1] = <<>>]

Build_uniform(node, dir, value) ==
    [node EXCEPT !.data[dir + 1] = value, !.children[dir + 1] = <<>>]

\* build_recurse from octant dir on; level is the depth of node below the
\* root.  The result is the node, or overflow when the recursion ran out of
\* stack.
RECURSIVE Build_loop(_, _, _, _, _)
Build_loop(o, bounds, node, dir, level) ==
    IF level >= StackFrames THEN [overflow |-> TRUE, node |-> node]
    ELSE IF dir > 7 THEN [overflow |-> FALSE, node |-> node]
    ELSE LET subbounds == Bounds_half(bounds, dir)
             r == Oracle_call(o, subbounds)
         IN  IF ~r.surface
             THEN Build_loop(o, bounds, Build_uniform(node, dir, r.value), dir + 1, level)
             ELSE LET subnode == IF node.children[dir + 1] # <<>>
                                 THEN node.children[dir + 1][1]
                                 ELSE Node_new_all(Default)
                      sub == Build_loop(o, subbounds, subnode, 0, level + 1)
                  IN  IF sub.overflow THEN [overflow |-> TRUE, node |-> node]
                      ELSE Build_loop(o, bounds,
                                      [node EXCEPT !.children[dir + 1] = <<sub.node>>],
                                      dir + 1, level)

Build_recurse(o, bounds, node) == Build_loop(o, bounds, node, 0, 0)

NoBuild == [status |-> "none", chunk |-> Chunk_new]

WorldBuilder_build(o) ==
    LET r == Build_recurse(o, Bounds_new, Chunk_new.root)
    IN  IF r.overflow THEN [status |-> "overflow", chunk |-> Chunk_new]
        ELSE [status |-> "returned", chunk |-> [root |-> r.node]]

----------------------------------------------------------------------------
(* Grid (grid.rs).  The allocation is a function from the offsets          *)
(* 0 .. 2^(3*lod) - 1 to the cells; a cell is Uninit until it is stored    *)
(* to.  `writes` counts the stores each cell received and `oob` records an *)
(* access outside the allocation.                                          *)

Uninit == -1

\* usize `|`
RECURSIVE OrNat(_, _)
OrNat(a, b) ==
    IF a = 0 THEN b
    ELSE IF b = 0 THEN a
    ELSE (IF a % 2 = 1 \/ b % 2 = 1 THEN 1 ELSE 0) + 2 * OrNat(a \div 2, b \div 2)

\* index.2 | (index.1 << lod) | (index.0 << (2 * lod))
Grid_offset(lod, index) ==
    OrNat(OrNat(index[3], index[2] * 2^lod), index[1] * 2^(2 * lod))

Grid_alloc(lod) ==
    [lod |-> lod,
     data |-> [o \in 0..(2^(3 * lod) - 1) |-> Uninit],
     writes |-> [o \in 0..(2^(3 * lod) - 1) |-> 0],
     oob |-> FALSE]

\* A store self[coords] = value.
Store(coords, value) == [coords |-> coords, value |-> value]

\* IndexMut for Grid: one store.
Grid_index_mut(g, store) ==
    LET o == Grid_offset(g.lod, store.coords)
    IN  IF o \in DOMAIN g.data
        THEN [g EXCEPT !.data[o] = store.value, !.writes[o] = @ + 1]
        ELSE [g EXCEPT !.oob = TRUE]

\* The grid after the stores lo .. hi of the sequence, made in order, up to
\* the first store outside the allocation.
RECURSIVE Grid_store_range(_, _, _, _)
Grid_store_range(g, stores, lo, hi) ==
    IF lo > hi THEN g
    ELSE IF lo = hi THEN Grid_index_mut(g, stores[lo])
    ELSE LET mid == (lo + hi) \div 2
             first == Grid_store_range(g, stores, lo, mid)
         IN  IF first.oob THEN first
             ELSE Grid_store_range(first, stores, mid + 1, hi)

Grid_store(g, stores) == Grid_store_range(g, stores, 1, Len(stores))

\* The stores of the fill loops: i, j, k in 0 .. size - 1, k innermost.
Grid_fill(location, size, value) ==
    [n \in 1..(size * size * size) |->
        Store(<<location[1] + ((n - 1) \div (size * size)),
                location[2] + (((n - 1) \div size) % size),
                location[3] + ((n - 1) % size)>>, value)]

Grid_child_location_ignores_z(location, dir, size) ==
    <<IF is_max_x(dir) THEN location[1] + size ELSE location[1],
      IF is_max_y(dir) THEN location[2] + size ELSE location[2],
      location[3]>>

Grid_child_location(location, dir, size) ==
    <<IF is_max_x(dir) THEN location[1] + size ELSE location[1],
      IF is_max_y(dir) THEN location[2] + size ELSE location[2],
      IF is_max_z(dir) THEN location[3] + size ELSE location[3]>>

\* The stores build_chunk_recursive makes, in the order it makes them.
RECURSIVE Grid_build_stores(_, _, _)
Grid_build_stores(node, lod, location) ==
    LET base(dir) ==
            LET offset == Direction_breakdown(dir)
            IN  <<Store(<<location[1] + offset[1], location[2] + offset[2],
                          location[3] + offset[3]>>, node.data[dir + 1])>>
        step(dir) ==
            LET new_lod == lod - 1
                size == 2^new_lod
                newlocation == Grid_child_location(location, dir, size)
            IN  IF node.children[dir + 1] # <<>>
                THEN Grid_build_stores(node.children[dir + 1][1], new_lod, newlocation)
                ELSE Grid_fill(newlocation, size, node.data[dir + 1])
        octant(dir) == IF lod = 1 THEN base(dir) ELSE step(dir)
    IN  octant(0) \o octant(1) \o octant(2) \o octant(3)
        \o octant(4) \o octant(5) \o octant(6) \o octant(7)

Grid_build_chunk_recursive(g, node, lod, location) ==
    Grid_store(g, Grid_build_stores(node, lod, location))

\* Grid::new; lod = 0 fails the assert.
Grid_new(c, lod) ==
    Grid_build_chunk_recursive(Grid_alloc(lod), c.root, lod, <<0, 0, 0>>)

NoGrid == [lod |-> 0, data |-> <<>>, writes |-> <<>>, oob |-> FALSE]

\* impl Index for Grid: the cell read, and whether the offset lies outside the
\* allocation (the debug_assert!s are compiled out of release builds).
Grid_index(g, index) ==
    LET o == Grid_offset(g.lod, index)
    IN  IF o \in DOMAIN g.data THEN [oob |-> FALSE, value |-> g.data[o]]
        ELSE [oob |-> TRUE, value |-> Uninit]

\* The (x, y, z) both iterators decode from a location.
Grid_coords(lod, location) ==
    LET mask == 2^lod
    IN  <<location \div (2^(lod * 2)), (location \div (2^lod)) % mask, location % mask>>

NoGridIter == [kind |-> "none", location |-> 0, ended |-> FALSE]
Grid_iter == [kind |-> "iter", location |-> 0, ended |-> FALSE]
Grid_iter_grouped == [kind |-> "grouped", location |-> 0, ended |-> FALSE]

GridIterator_next_before_increment(g, it) ==
    LET capacity == 2^(g.lod * 3)
    IN  IF it.location >= capacity
        THEN [iter |-> [it EXCEPT !.ended = TRUE], some |-> FALSE]
        ELSE [iter |-> [it EXCEPT !.location = @ + 1], some |-> TRUE,
              coords |-> Grid_coords(g.lod, it.location + 1),
              value |-> g.data[it.location]]

GridIterator_next(g, it) ==
    LET capacity == 2^(g.lod * 3)
    IN  IF it.location >= capacity
        THEN [iter |-> [it EXCEPT !.ended = TRUE], some |-> FALSE]
        ELSE [iter |-> [it EXCEPT !.location = @ + 1], some |-> TRUE,
              coords |-> Grid_coords(g.lod, it.location),
              value |-> g.data[it.location]]

\* DirectionMapper::from_mapper(f): the mapper whose entry for dir is f(dir).
\* Here f reads the cell at (x, y, z) + breakdown(dir).
DirectionMapper_from_mapper(g, xyz) ==
    [i \in 1..8 |->
        LET offset == Direction_breakdown(i - 1)
        IN  Grid_index(g, <<xyz[1] + offset[1], xyz[2] + offset[2], xyz[3] + offset[3]>>)]

GridGroupedIterator_next_keeps_boundary(g, it) ==
    LET capacity == 2^(g.lod * 3)
        xyz == Grid_coords(g.lod, it.location)
    IN  IF it.location >= capacity
        THEN [iter |-> [it EXCEPT !.ended = TRUE], some |-> FALSE]
        ELSE [iter |-> [it EXCEPT !.location = @ + 1], some |-> TRUE,
              coords |-> xyz, mapper |-> DirectionMapper_from_mapper(g, xyz)]

RECURSIVE GridGroupedIterator_next(_, _)
GridGroupedIterator_next(g, it) ==
    LET size == 2^g.lod
        capacity == 2^(g.lod * 3)
        xyz == Grid_coords(g.lod, it.location)
        moved == [it EXCEPT !.location = @ + 1]
    IN  IF it.location >= capacity
        THEN [iter |-> [it EXCEPT !.ended = TRUE], some |-> FALSE]
        ELSE IF xyz[3] + 1 >= size \/ xyz[2] + 1 >= size \/ xyz[1] + 1 >= size
        THEN GridGroupedIterator_next(g, moved)
        ELSE [iter |-> moved, some |-> TRUE,
              coords |-> xyz, mapper |-> DirectionMapper_from_mapper(g, xyz)]

----------------------------------------------------------------------------
(* Bounds of the inputs                                                    *)

\* Pushes and puts draw from all eight directions while the path is shorter
\* than FreeLen, and from DeepDirs beyond, up to the full 21 directions.
FreeLen == 1
DeepDirs == {RearRightTop}

\* Set calls of the chunk machine: paths that follow SpineDir for at most
\* MaxSetLen - 1 levels and end in FrontLeftBottom, and the coarse paths that
\* name the spine's own octants; values 0..MaxVal.
MaxSetLen == 3
MaxVal == 1
SpineDir == RearRightTop
CoarseLens == {1, 2}

\* Set calls of the iterator machine: a side octant subdivided down to
\* MaxSideLen - 1 levels, and the spine subdivided down to MAX_SIZE - 1 levels.
MaxSideLen == 2
SideDir == RearRightBottom

\* Bounds machine: cubes on the grid of the tests (gridsize 128) with
\* corners in 0..MaxCoord.
MaxCoord == 3
TestGridSize == 128

\* WorldBuilder machine: cube oracles whose target has its corners on the
\* grid of 2^BuildLod cells a side, the two constant closures, and spine
\* oracles down to MaxSpine levels, and the oracles that say Surface of the
\* root's octants and Uniform below.
BuildLod == 2
BuildGrid == 2^BuildLod
MaxSpine == 22

\* Grid machine: grids of lod 1..MaxLod, of chunks made by set calls along
\* the side octant down to three levels.
MaxLod == 2

\* Path iteration: a path built from new() by pushes only or by puts only, of
\* any directions for the first WalkFreeLen of them and then, as the tests
\* do, of direction i for the i-th (mod 8), up to the full 21.
WalkFreeLen == 2

\* Voxel machine: chunks made by set calls in the side octant, in the spine
\* octant, on the spine octant itself and at the bottom of the whole spine;
\* get_child calls in any of NavDirs for the first
\* NavFreeLen steps, then down the spine with one last step off it, MaxNav
\* steps at most.
NavFreeLen == 3
MaxNav == 22
NavDirs == {FrontLeftBottom, SideDir, SpineDir}

Values == 0..MaxVal

Repeat(d, k) == [i \in 1..k |-> d]

SpinePaths(spine, leaf, n) ==
    {PathOf(Repeat(spine, k) \o <<leaf>>) : k \in 0..(n - 1)}

CoarsePaths == {PathOf(Repeat(SpineDir, k)) : k \in CoarseLens}

SetPaths == SpinePaths(SpineDir, FrontLeftBottom, MaxSetLen) \cup CoarsePaths

SidePaths == SpinePaths(SideDir, FrontLeftBottom, MaxSideLen)

DeepPaths == SpinePaths(SpineDir, FrontLeftBottom, MAX_SIZE) \ {PathOf(<<FrontLeftBottom>>)}

IterCalls ==
    [path : SidePaths, value : Values] \cup [path : DeepPaths, value : {1}]

BoundsInputs ==
    {Bounds_from_discrete_grid(<<x, y, z>>, w, TestGridSize) :
        <<x, y, z, w>> \in {t \in (0..MaxCoord) \X (0..MaxCoord) \X (0..MaxCoord) \X (1..MaxCoord) :
                               /\ t[1] + t[4] <= MaxCoord
                               /\ t[2] + t[4] <= MaxCoord
                               /\ t[3] + t[4] <= MaxCoord}}

VoxCalls ==
    [path : {PathOf(<<SideDir, FrontLeftBottom>>),
             PathOf(<<SpineDir, FrontLeftBottom>>),
             PathOf(Repeat(SpineDir, MAX_SIZE - 1) \o <<FrontLeftBottom>>)},
     value : {1}]
    \cup [path : {PathOf(<<SpineDir>>)}, value : {0, 1}]

GridCalls ==
    [path : {PathOf(<<FrontRightBottom>>), PathOf(<<SideDir>>),
             PathOf(<<SideDir, FrontRightBottom>>),
             PathOf(<<SideDir, SideDir, FrontRightBottom>>)},
     value : {1}]

BuildTargets ==
    {Bounds_from_discrete_grid(<<t[1], t[2], t[3]>>, t[4], BuildGrid) :
        t \in {u \in (0..BuildGrid) \X (0..BuildGrid) \X (0..BuildGrid) \X (1..BuildGrid) :
                  /\ u[1] + u[4] <= BuildGrid
                  /\ u[2] + u[4] <= BuildGrid
                  /\ u[3] + u[4] <= BuildGrid}}

\* The oracle of tests::test_cube.
TestOracle == CubeOracle(Bounds_from_discrete_grid(<<32, 32, 32>>, 32, TestGridSize))

Oracles ==
    {CubeOracle(b) : b \in BuildTargets}
    \cup {UniformOracle(v) : v \in Values}
    \cup {SurfaceOracle}
    \cup {SpineOracle(k) : k \in 1..MaxSpine}
    \cup {LevelOracle(1, v) : v \in Values}

----------------------------------------------------------------------------
(* Initial state: IndexPath::new(), Chunk::new(), no iterator, two unit    *)
(* cubes.                                                                  *)

CallRec(op, d, arg, r) ==
    [op |-> op, d |-> d, arg |-> arg,
     abort |-> r.abort, path |-> r.path, dir |-> r.dir, bounds |-> Bounds_new]

LastRec(op, path, value) == [op |-> op, path |-> path, value |-> value]

DirRec(op, n, d, triple) == [op |-> op, n |-> n, d |-> d, ret |-> triple]

Built(mode, dirs) == [mode |-> mode, dirs |-> dirs]

NoYield == [active |-> FALSE, start |-> new, items |-> <<>>, ended |-> FALSE]

VoxRec(op, d, before) == [op |-> op, d |-> d, before |-> before]

Init ==
    /\ word = new
    /\ call = CallRec("new", 0, new, RetPath(new))
    /\ chunk = Chunk_new
    /\ last = LastRec("new", new, Default)
    /\ iter = NoIter
    /\ itStatus = "none"
    /\ emitted = <<>>
    /\ b1 = Bounds_new
    /\ b2 = Bounds_new
    /\ rel = "none"
    /\ dval = FrontLeftBottom
    /\ dcall = DirRec("new", 0, FrontLeftBottom, <<0, 0, 0>>)
    /\ oracle = TestOracle
    /\ build = NoBuild
    /\ grid = NoGrid
    /\ git = NoGridIter
    /\ gitems = <<>>
    /\ vox = NoVoxel
    /\ vsteps = <<>>
    /\ vcall = VoxRec("none", FrontLeftBottom, NoVoxel)
    /\ pword = new
    /\ pbuilt = Built("new", <<>>)
    /\ pyield = NoYield

pathVars == <<word, call>>
chunkVars == <<chunk, last>>
iterVars == <<iter, itStatus, emitted>>
boundsVars == <<b1, b2, rel>>
dirVars == <<dval, dcall>>

buildVars == <<oracle, build>>

\* The variables of the machines that follow the first four.
gridVars == <<grid, git, gitems>>
voxVars == <<vox, vsteps, vcall>>
walkVars == <<pword, pbuilt, pyield>>
moreVars == <<dirVars, buildVars, gridVars, voxVars, walkVars>>
otherVars == <<pathVars, chunkVars, iterVars, boundsVars>>
dirRest == <<otherVars, buildVars, gridVars, voxVars, walkVars>>
buildRest == <<otherVars, dirVars, gridVars, voxVars, walkVars>>
gridRest == <<pathVars, iterVars, boundsVars, dirVars, buildVars, voxVars, walkVars>>
voxRest == <<pathVars, iterVars, boundsVars, dirVars, buildVars, gridVars, walkVars>>
walkRest == <<otherVars, dirVars, buildVars, gridVars, voxVars>>

----------------------------------------------------------------------------
(* IndexPath machine: the caller holds a path and calls one operation on   *)
(* it; a call that returns a path replaces the held one, a call that       *)
(* aborts or returns a direction leaves it.                                *)

PathDirs(w) == IF len(w) < FreeLen THEN Dirs ELSE DeepDirs

\* A call that returns a path (push, pop, put, del).
PathCall(op, d, r) ==
    /\ call' = CallRec(op, d, word, r)
    /\ word' = IF r.abort THEN word ELSE r.path
    /\ UNCHANGED <<chunkVars, iterVars, boundsVars, moreVars>>

\* A call that returns a direction (peek, get).
DirCall(op, r) ==
    /\ call' = CallRec(op, 0, word, r)
    /\ UNCHANGED <<word, chunkVars, iterVars, boundsVars, moreVars>>

Push == \E d \in PathDirs(word) : PathCall("push", d, push(word, d))

Put == \E d \in PathDirs(word) : PathCall("put", d, put(word, d))

Pop == PathCall("pop", 0, pop(word))

Del == PathCall("del", 0, del(word))

Peek == DirCall("peek", peek(word))

Get == DirCall("get", get(word))

ToBounds ==
    /\ call' = [CallRec("bounds", 0, word, RetPath(word)) EXCEPT !.bounds = Bounds_from(word)]
    /\ UNCHANGED <<word, chunkVars, iterVars, boundsVars, moreVars>>

PathNext == Push \/ Put \/ Pop \/ Del \/ Peek \/ Get \/ ToBounds

SpecPath == Init /\ [][PathNext]_vars

----------------------------------------------------------------------------
(* Chunk machine: set calls on a chunk that no iterator borrows.           *)

Set(index_path, value) ==
    /\ itStatus = "none"
    /\ vox = NoVoxel
    /\ chunk' = Chunk_set(chunk, index_path, value)
    /\ last' = LastRec("set", index_path, value)
    /\ UNCHANGED <<pathVars, iterVars, boundsVars, moreVars>>

ChunkSet == \E p \in SetPaths, v \in Values : Set(p, v)

ChunkNext == ChunkSet

SpecChunk == Init /\ [][ChunkNext]_vars

----------------------------------------------------------------------------
(* Iterator machine: set calls, then iter_leaf and next() calls until the  *)
(* iterator is dropped.  The borrow keeps set away while the iterator      *)
(* lives.                                                                  *)

IterSet == \E c \in IterCalls : Set(c.path, c.value)

IterLeaf ==
    /\ itStatus = "none"
    /\ iter' = Chunk_iter_leaf
    /\ itStatus' = "active"
    /\ emitted' = <<>>
    /\ last' = LastRec("iter_leaf", new, Default)
    /\ UNCHANGED <<chunk, pathVars, boundsVars, moreVars>>

IterNext ==
    /\ itStatus \in {"active", "ended"}
    /\ LET out == ChunkLeafIterator_next(chunk, iter)
       IN  /\ iter' = out.iter
           /\ itStatus' = IF out.kind = "Some" THEN "active"
                          ELSE IF out.kind = "None" THEN "ended"
                          ELSE "aborted"
           /\ emitted' = IF out.kind = "Some" THEN Append(emitted, out.voxel) ELSE emitted
    /\ UNCHANGED <<chunkVars, pathVars, boundsVars, moreVars>>

IterDrop ==
    /\ itStatus # "none"
    /\ iter' = NoIter
    /\ itStatus' = "none"
    /\ emitted' = <<>>
    /\ UNCHANGED <<chunkVars, pathVars, boundsVars, moreVars>>

IterMachineNext == IterSet \/ IterLeaf \/ IterNext \/ IterDrop

SpecIter == Init /\ [][IterMachineNext]_vars

----------------------------------------------------------------------------
(* Bounds machine: two cubes and the relationship of the first to the      *)
(* second.                                                                 *)

MakeB1 ==
    /\ \E b \in BoundsInputs : b1' = b
    /\ rel' = "none"
    /\ UNCHANGED <<b2, pathVars, chunkVars, iterVars, moreVars>>

MakeB2 ==
    /\ \E b \in BoundsInputs : b2' = b
    /\ rel' = "none"
    /\ UNCHANGED <<b1, pathVars, chunkVars, iterVars, moreVars>>

Intersects ==
    /\ rel' = Bounds_intersects(b1, b2)
    /\ UNCHANGED <<b1, b2, pathVars, chunkVars, iterVars, moreVars>>

BoundsNext == MakeB1 \/ MakeB2 \/ Intersects

SpecBounds == Init /\ [][BoundsNext]_vars

----------------------------------------------------------------------------
(* Direction machine: a Direction made from a u8, its opposite, and its    *)
(* breakdown into per-axis offsets.                                        *)

DirFrom ==
    /\ \E n \in 0..U8_MAX :
           /\ dval' = Direction_from(n)
           /\ dcall' = DirRec("from", n, Direction_from(n), <<0, 0, 0>>)
    /\ UNCHANGED dirRest

DirOpposite ==
    /\ dval' = Direction_opposite(dval)
    /\ dcall' = DirRec("opposite", 0, dval, <<0, 0, 0>>)
    /\ UNCHANGED dirRest

DirBreakdown ==
    /\ dcall' = DirRec("breakdown", 0, dval, Direction_breakdown(dval))
    /\ UNCHANGED <<dval, dirRest>>

DirNext == DirFrom \/ DirOpposite \/ DirBreakdown

SpecDir == Init /\ [][DirNext]_vars

----------------------------------------------------------------------------
(* WorldBuilder machine: a builder is made with an oracle, and build is    *)
(* called on it.                                                           *)

WorldBuilderNew ==
    /\ \E o \in Oracles : oracle' = o
    /\ build' = NoBuild
    /\ UNCHANGED buildRest

Build ==
    /\ build' = WorldBuilder_build(oracle)
    /\ UNCHANGED <<oracle, buildRest>>

BuildNext == WorldBuilderNew \/ Build

SpecBuild == Init /\ [][BuildNext]_vars

----------------------------------------------------------------------------
(* Grid machine: set calls make a chunk, Grid::new densifies it, and one   *)
(* of the two iterators walks the grid.  A cell that was never stored to   *)
(* reads as any value.                                                     *)

GridSet ==
    /\ grid = NoGrid
    /\ \E c \in GridCalls : Set(c.path, c.value)

GridNew ==
    /\ grid = NoGrid
    /\ \E lod \in 1..MaxLod : grid' = Grid_new(chunk, lod)
    /\ UNCHANGED <<git, gitems, chunkVars, gridRest>>

GridIter ==
    /\ grid # NoGrid /\ git.kind = "none"
    /\ git' = Grid_iter
    /\ gitems' = <<>>
    /\ UNCHANGED <<grid, chunkVars, gridRest>>

GridIterGrouped ==
    /\ grid # NoGrid /\ git.kind = "none"
    /\ git' = Grid_iter_grouped
    /\ gitems' = <<>>
    /\ UNCHANGED <<grid, chunkVars, gridRest>>

ReadCell(cell) == IF cell = Uninit THEN {0, 1} ELSE {cell}

GridIterNext ==
    /\ git.kind = "iter"
    /\ LET out == GridIterator_next(grid, git)
       IN  /\ git' = out.iter
           /\ IF out.some
              THEN \E v \in ReadCell(out.value) :
                       gitems' = Append(gitems, [coords |-> out.coords, value |-> v])
              ELSE gitems' = gitems
    /\ UNCHANGED <<grid, chunkVars, gridRest>>

GridGroupedNext ==
    /\ git.kind = "grouped"
    /\ LET out == GridGroupedIterator_next(grid, git)
       IN  /\ git' = out.iter
           /\ IF out.some
              THEN \E m \in [1..8 -> UNION {ReadCell(out.mapper[i].value) : i \in 1..8}] :
                       /\ \A i \in 1..8 : m[i] \in ReadCell(out.mapper[i].value)
                       /\ gitems' = Append(gitems,
                              [coords |-> out.coords, mapper |-> m,
                               oob |-> \E i \in 1..8 : out.mapper[i].oob])
              ELSE gitems' = gitems
    /\ UNCHANGED <<grid, chunkVars, gridRest>>

GridIterDrop ==
    /\ git.kind # "none"
    /\ git' = NoGridIter
    /\ gitems' = <<>>
    /\ UNCHANGED <<grid, chunkVars, gridRest>>

GridDrop ==
    /\ grid # NoGrid /\ git.kind = "none"
    /\ grid' = NoGrid
    /\ UNCHANGED <<git, gitems, chunkVars, gridRest>>

GridNext ==
    \/ GridSet \/ GridNew \/ GridIter \/ GridIterGrouped
    \/ GridIterNext \/ GridGroupedNext \/ GridIterDrop \/ GridDrop

SpecGrid == Init /\ [][GridNext]_vars

----------------------------------------------------------------------------
(* Voxel machine: set calls on a chunk no voxel borrows, then the root     *)
(* voxel and get_child calls on the voxel held.                            *)

VoxSet ==
    /\ \E c \in VoxCalls : Set(c.path, c.value)

VoxRoot ==
    /\ vox = NoVoxel
    /\ vox' = Voxel_root
    /\ vsteps' = <<>>
    /\ vcall' = VoxRec("root", FrontLeftBottom, NoVoxel)
    /\ UNCHANGED <<chunkVars, voxRest>>

VoxGetChild ==
    /\ vox # NoVoxel
    /\ Len(vsteps) < MaxNav
    /\ \E d \in NavDirs :
           /\ IF Len(vsteps) < NavFreeLen THEN TRUE
              ELSE vsteps[Len(vsteps)] = SpineDir
           /\ LET out == Voxel_get_child(chunk, vox, d)
              IN  /\ ~out.abort
                  /\ vox' = out.voxel
           /\ vsteps' = Append(vsteps, d)
           /\ vcall' = VoxRec("get_child", d, vox)
    /\ UNCHANGED <<chunkVars, voxRest>>

VoxDrop ==
    /\ vox # NoVoxel
    /\ vox' = NoVoxel
    /\ vsteps' = <<>>
    /\ vcall' = VoxRec("none", FrontLeftBottom, NoVoxel)
    /\ UNCHANGED <<chunkVars, voxRest>>

VoxNext == VoxSet \/ VoxRoot \/ VoxGetChild \/ VoxDrop

SpecVox == Init /\ [][VoxNext]_vars

----------------------------------------------------------------------------
(* Path iteration: the caller builds a TopDownIndexPath from new() by      *)
(* pushes or by puts, then calls next() on it until it returns None.       *)

WalkDirs == IF Len(pbuilt.dirs) < WalkFreeLen THEN Dirs
            ELSE {Direction_from(Len(pbuilt.dirs))}

WalkBuild(mode, d, r) ==
    /\ ~pyield.active
    /\ pbuilt.mode \in {"new", mode}
    /\ ~r.abort
    /\ pword' = r.path
    /\ pbuilt' = Built(mode, Append(pbuilt.dirs, d))
    /\ UNCHANGED <<pyield, walkRest>>

WalkPush == \E d \in WalkDirs : WalkBuild("push", d, push(pword, d))

WalkPut == \E d \in WalkDirs : WalkBuild("put", d, put(pword, d))

WalkIterNext ==
    /\ ~pyield.ended
    /\ LET out == TopDownIndexPath_next(pword)
       IN  /\ pword' = out.path
           /\ pyield' = [active |-> TRUE,
                         start |-> IF pyield.active THEN pyield.start ELSE pword,
                         items |-> IF out.some THEN Append(pyield.items, out.dir)
                                   ELSE pyield.items,
                         ended |-> ~out.some]
    /\ UNCHANGED <<pbuilt, walkRest>>

WalkNew ==
    /\ pword' = new
    /\ pbuilt' = Built("new", <<>>)
    /\ pyield' = NoYield
    /\ UNCHANGED walkRest

WalkNext == WalkPush \/ WalkPut \/ WalkIterNext \/ WalkNew

SpecWalk == Init /\ [][WalkNext]_vars

Next ==
    \/ WalkNext
    \/ PathNext \/ ChunkNext \/ IterMachineNext \/ BoundsNext
    \/ DirNext \/ BuildNext \/ GridNext \/ VoxNext

Spec == Init /\ [][Next]_vars

----------------------------------------------------------------------------
(* Properties                                                              *)

\* The number of directions a well-formed word stores: its sentinel's position
\* over three.
Stored(w) == HighBit(w) \div 3

\* The i-th stored direction, counted from the low end of the word (i >= 1).
Digit(w, i) ==
    (IF 3 * (i - 1) \in w THEN 1 ELSE 0)
    + (IF 3 * (i - 1) + 1 \in w THEN 2 ELSE 0)
    + (IF 3 * (i - 1) + 2 \in w THEN 4 ELSE 0)

WellFormed(w) == w # {} /\ HighBit(w) % 3 = 0

\* C1: after set(p, v), get(p) on the same chunk returns v.
C1_SetThenGet ==
    last.op = "set" => Chunk_get(chunk, last.path) = last.value

RECURSIVE Collapsed(_)
Collapsed(node) ==
    \A i \in 1..8 :
        node.children[i] # <<>> =>
            /\ \E j, k \in 1..8 : node.children[i][1].data[j] # node.children[i][1].data[k]
            /\ Collapsed(node.children[i][1])

\* C2: collapse invariant: no node of the chunk has a present child whose
\* eight data entries are all equal.
C2_CollapseInvariant == Collapsed(chunk.root)

\* A set of a length-3 path has just gone through a subdivided octant and
\* merged the child it made or found below it.
C2_Witness ==
    /\ last.op = "set"
    /\ len(last.path) = 3
    /\ chunk.root.children[SpineDir + 1] # <<>>
    /\ chunk.root.children[SpineDir + 1][1].children[SpineDir + 1] = <<>>
    /\ chunk.root.children[SpineDir + 1][1].data[SpineDir + 1] = last.value
    /\ last.value # Default

\* C3: queue-view round trip: del(put(P, d)) = P and get(put(P, d)) = d for
\* every path P that is not full.
C3_QueueRoundTrip ==
    (call.op = "put" /\ ~call.abort) =>
        /\ del(call.path) = RetPath(call.arg)
        /\ get(call.path) = RetDir(call.d)

\* C6: stack-view round trip: pop(push(P, d)) = P and peek(push(P, d)) = d for
\* every path P with len(P) < 21, on which push returns.
C6_StackRoundTrip ==
    call.op = "push" =>
        /\ len(call.arg) < MAX_SIZE => ~call.abort
        /\ ~call.abort =>
              /\ pop(call.path) = RetPath(call.arg)
              /\ peek(call.path) = RetDir(call.d)

\* The twenty-first direction has been pushed.
C6_Witness ==
    call.op = "push" /\ ~call.abort /\ len(call.arg) = MAX_SIZE - 1

\* C7: sentinel invariant: the held word is non-zero, its highest set bit is
\* at a multiple of 3 (at most 63); is_empty holds exactly when no direction is
\* stored and is_full exactly when 21 are.
C7_SentinelInvariant ==
    /\ WellFormed(word)
    /\ HighBit(word) <= 63
    /\ is_empty(word) <=> Stored(word) = 0
    /\ is_full(word) <=> Stored(word) = MAX_SIZE
    /\ is_empty(word) <=> word = U64(1)

\* A put has just filled the path.
C7_Witness ==
    call.op = "put" /\ ~call.abort /\ is_full(word)

\* C8: peek, pop, get and del abort on the empty path, push and put abort on a
\* full path; a call that returns a path returns a well-formed word whose
\* sentinel has moved by exactly the one direction pushed, put or popped.
C8_PreconditionsAbort ==
    /\ (call.op \in {"peek", "pop", "get", "del"} /\ is_empty(call.arg)) => call.abort
    /\ (call.op \in {"push", "put"} /\ is_full(call.arg)) => call.abort
    /\ (call.op \in {"push", "pop", "put", "del"} /\ ~call.abort) => WellFormed(call.path)
    /\ (call.op \in {"push", "put"} /\ ~call.abort) =>
           Stored(call.path) = Stored(call.arg) + 1
    /\ (call.op = "pop" /\ ~call.abort) => Stored(call.path) = Stored(call.arg) - 1

\* A put on a full path has aborted.
C8_Witness ==
    call.op = "put" /\ is_full(call.arg) /\ call.abort

\* C4: every voxel iter_leaf emits has bounds = Bounds::from(index_path).
C4_VoxelBoundsMatchPath ==
    \A i \in 1..Len(emitted) :
        emitted[i].bounds = Bounds_from(emitted[i].index_path)

\* The slots (node, octant) of the tree whose child is absent, depth first with
\* the octants of every node in ascending order, each with its data entry.
RECURSIVE LeafSlots(_, _, _)
LeafSlots(node, addr, d) ==
    IF d > 7 THEN <<>>
    ELSE (IF node.children[d + 1] # <<>>
          THEN LeafSlots(node.children[d + 1][1], Append(addr, d), 0)
          ELSE <<[node |-> addr, octant |-> d, value |-> node.data[d + 1]]>>)
         \o LeafSlots(node, addr, d + 1)

\* What the emitted voxels name: the node, the octant read back from the path
\* with get, and get_value.
EmittedSlots ==
    [i \in 1..Len(emitted) |->
        [node |-> emitted[i].node,
         octant |-> get(emitted[i].index_path).dir,
         value |-> Voxel_get_value(chunk, emitted[i]).value]]

IsPrefix(s, t) == Len(s) <= Len(t) /\ s = SubSeq(t, 1, Len(s))

\* C5: iter_leaf emits the absent-child slots of the chunk, one voxel each, in
\* depth-first order with octants ascending, and all of them by the time it
\* stops.
C5_LeafOrder ==
    itStatus # "none" =>
        /\ IsPrefix(EmittedSlots, LeafSlots(chunk.root, <<>>, 0))
        /\ itStatus \in {"ended", "aborted"} =>
               EmittedSlots = LeafSlots(chunk.root, <<>>, 0)

\* Bit 0 of a direction is its x bit, bit 1 its y bit, bit 2 its z bit.
AxisBit(d, axis) == (d \div (2^(axis - 1))) % 2 = 1

\* The sum over i in 1..k of (axis bit of Digit(w, i)) * MAX_WIDTH / 2^i.
RECURSIVE OriginSum(_, _, _)
OriginSum(w, k, axis) ==
    IF k = 0 THEN 0
    ELSE OriginSum(w, k - 1, axis)
         + (IF AxisBit(Digit(w, k), axis) THEN MAX_WIDTH \div (2^k) ELSE 0)

\* C10: Bounds::from(path), for a path that stores d1 .. dk from its low end,
\* has width MAX_WIDTH / 2^k and on each axis the origin
\* sum of (axis bit of d_i) * MAX_WIDTH / 2^i; its origin is a multiple of its
\* width and origin + width <= MAX_WIDTH.
C10_BoundsFromPath ==
    call.op = "bounds" =>
        LET k == Stored(call.arg)
            b == call.bounds
        IN  /\ b.width = MAX_WIDTH \div (2^k)
            /\ b.x = OriginSum(call.arg, k, 1)
            /\ b.y = OriginSum(call.arg, k, 2)
            /\ b.z = OriginSum(call.arg, k, 3)
            /\ b.width > 0
            /\ b.x % b.width = 0 /\ b.y % b.width = 0 /\ b.z % b.width = 0
            /\ b.x + b.width <= MAX_WIDTH
            /\ b.y + b.width <= MAX_WIDTH
            /\ b.z + b.width <= MAX_WIDTH

\* The Bounds of a full path, 21 halvings deep, with an octant that is not on
\* the diagonal.
C10_Witness ==
    /\ call.op = "bounds"
    /\ len(call.arg) = MAX_SIZE
    /\ call.bounds.x # call.bounds.y

Lo(b, axis) == IF axis = 1 THEN b.x ELSE IF axis = 2 THEN b.y ELSE b.z
Hi(b, axis) == Lo(b, axis) + b.width
MaxOf(m, n) == IF m >= n THEN m ELSE n
MinOf(m, n) == IF m <= n THEN m ELSE n

\* The half-open intervals of a and b on the axis share a point.
Overlap(a, b, axis) == MaxOf(Lo(a, axis), Lo(b, axis)) < MinOf(Hi(a, axis), Hi(b, axis))

\* The interval of b on the axis lies within that of a.
Within(a, b, axis) ==
    /\ MaxOf(Lo(a, axis), Lo(b, axis)) = Lo(b, axis)
    /\ MinOf(Hi(a, axis), Hi(b, axis)) = Hi(b, axis)

\* C9: b1.intersects(b2) is Disjoint exactly when the half-open intervals fail
\* to overlap on some axis, Contain exactly when they are not disjoint and b2
\* lies inside b1 on all three axes, Intersect otherwise.
C9_IntersectsTriState ==
    rel # "none" =>
        LET disjoint == \E axis \in 1..3 : ~Overlap(b1, b2, axis)
            inside == \A axis \in 1..3 : Within(b1, b2, axis)
        IN  /\ rel \in {"Disjoint", "Contain", "Intersect"}
            /\ rel = "Disjoint" <=> disjoint
            /\ rel = "Contain" <=> (~disjoint /\ inside)
            /\ rel = "Intersect" <=> (~disjoint /\ ~inside)

\* Two cubes that touch on a face and overlap on the other two axes are
\* Disjoint.
C9_Witness ==
    /\ rel = "Disjoint"
    /\ b1.x + b1.width = b2.x
    /\ Overlap(b1, b2, 2)
    /\ Overlap(b1, b2, 3)

\* C11: breakdown(d) = (x, y, z) with x = 1 exactly when is_max_x(d), y = 1
\* exactly when is_max_y(d) and z = 1 exactly when is_max_z(d).
C11_BreakdownMatchesBits ==
    dcall.op = "breakdown" =>
        /\ (dcall.ret[1] = 1) <=> is_max_x(dcall.d)
        /\ (dcall.ret[2] = 1) <=> is_max_y(dcall.d)
        /\ (dcall.ret[3] = 1) <=> is_max_z(dcall.d)

\* The depth of the deepest node below the given one.
RECURSIVE Depth(_)
Depth(node) ==
    LET ds == {Depth(node.children[i][1]) + 1 : i \in {j \in 1..8 : node.children[j] # <<>>}}
    IN  IF ds = {} THEN 0 ELSE CHOOSE m \in ds : \A n \in ds : n <= m

\* C12: build returns for every oracle, and the chunk it returns has no node
\* more than MAX_SIZE levels below the root.
C12_BuildDepthGuard ==
    build.status # "none" =>
        /\ build.status = "returned"
        /\ Depth(build.chunk.root) <= MAX_SIZE

\* The chunk under node, whose cube is bounds, is the one the oracle
\* describes: an octant is a leaf holding v where the oracle says Uniform(v) of
\* the octant's cube, and subdivided where it says Surface.
RECURSIVE BuildMatches(_, _, _)
BuildMatches(o, node, bounds) ==
    \A d \in Dirs :
        LET b == Bounds_half(bounds, d)
            r == Oracle_call(o, b)
        IN  IF r.surface
            THEN /\ node.children[d + 1] # <<>>
                 /\ BuildMatches(o, node.children[d + 1][1], b)
            ELSE /\ node.children[d + 1] = <<>>
                 /\ node.data[d + 1] = r.value
                 /\ o.kind = "cube" =>
                        node.data[d + 1] = (IF \A axis \in 1..3 : Within(o.target, b, axis)
                                            THEN 1 ELSE 0)

\* C13: the chunk build returns has, at every octant it reached, a leaf with
\* value v exactly where the oracle says Uniform(v) and a child exactly where
\* it says Surface; under a cube oracle the leaves inside the cube hold 1 and
\* the others 0.
C13_BuildFollowsOracle ==
    build.status = "returned" => BuildMatches(oracle, build.chunk.root, Bounds_new)

\* The cube of tests::test_cube has been built: octant 0 of the root is
\* subdivided and its octant 7, the cell inside the cube, holds 1.
C13_Witness ==
    /\ oracle = TestOracle
    /\ build.status = "returned"
    /\ build.chunk.root.children[1] # <<>>
    /\ build.chunk.root.children[1][1].data[8] = 1
    /\ build.chunk.root.children[1][1].data[1] = 0

\* The side of the grid and its coordinate triples.
GridSide == 2^grid.lod
GridCells == (0..(GridSide - 1)) \X (0..(GridSide - 1)) \X (0..(GridSide - 1))

\* What Grid::new is to leave at the cell xyz of the cube of side 2^lod at
\* location, densifying node: below an octant without child, the node's data
\* entry for the octant; at lod 1, the data entry of the direction whose
\* breakdown is the cell's corner.
RECURSIVE Densified(_, _, _, _)
Densified(node, lod, location, xyz) ==
    LET size == 2^(lod - 1)
        block(e) == [a \in 1..3 |-> location[a] + (IF AxisBit(e, a) THEN size ELSE 0)]
        d == CHOOSE e \in Dirs :
                 \A a \in 1..3 : block(e)[a] <= xyz[a] /\ xyz[a] < block(e)[a] + size
        corner == CHOOSE e \in Dirs :
                      \A a \in 1..3 : xyz[a] = location[a] + Direction_breakdown(e)[a]
    IN  IF lod = 1 THEN node.data[corner + 1]
        ELSE IF node.children[d + 1] = <<>> THEN node.data[d + 1]
        ELSE Densified(node.children[d + 1][1], lod - 1, block(d), xyz)

\* C14: Grid::new stores to every cell exactly once and to nothing outside
\* the allocation; a cell below an octant without child holds the parent's
\* data entry, and at depth lod the node's eight data entries lie on the eight
\* corners, whatever children the node has.
C14_GridWrittenOnce ==
    (grid # NoGrid /\ git.kind = "none") =>
        /\ ~grid.oob
        /\ DOMAIN grid.data = 0..(2^(3 * grid.lod) - 1)
        /\ \A o \in DOMAIN grid.writes : grid.writes[o] = 1
        /\ \A xyz \in GridCells :
               Grid_index(grid, xyz).value = Densified(chunk.root, grid.lod, <<0, 0, 0>>, xyz)

\* A grid of lod 2 of a chunk whose side octant is subdivided twice: the
\* grandchild is below the grid's depth, and a filled block and a copied
\* corner hold different values.
C14_Witness ==
    /\ grid # NoGrid /\ git.kind = "none" /\ grid.lod = 2
    /\ chunk.root.children[SideDir + 1] # <<>>
    /\ chunk.root.children[SideDir + 1][1].children[SideDir + 1] # <<>>
    /\ \E o, q \in DOMAIN grid.data : grid.data[o] # grid.data[q]

\* The storage offset of a coordinate triple of the grid, by arithmetic.
StorageOffset(xyz) == xyz[3] + xyz[2] * GridSide + xyz[1] * GridSide * GridSide

\* C15: Grid::iter yields 2^(3*lod) items and then ends; item n (from 0)
\* carries the coordinates (x, y, z) in the grid with
\* z | (y << lod) | (x << 2*lod) = n and the value of grid[(x, y, z)]; every
\* coordinate triple is yielded once.
C15_IterStorageOrder ==
    git.kind = "iter" =>
        /\ Len(gitems) = git.location
        /\ Len(gitems) <= 2^(3 * grid.lod)
        /\ git.ended => Len(gitems) = 2^(3 * grid.lod)
        /\ gitems # <<>> =>
               LET item == gitems[Len(gitems)]
               IN  /\ item.coords \in GridCells
                   /\ StorageOffset(item.coords) = Len(gitems) - 1
                   /\ item.value = Grid_index(grid, item.coords).value
        /\ git.ended =>
               /\ {gitems[i].coords : i \in 1..Len(gitems)} = GridCells
               /\ \A i \in 1..Len(gitems) : StorageOffset(gitems[i].coords) = i - 1

\* Grid::iter has walked a grid of lod 2 that holds two different values, to
\* its end.
C15_Witness ==
    /\ git.kind = "iter" /\ git.ended /\ grid.lod = 2
    /\ Len(gitems) = 64
    /\ \E i, j \in 1..Len(gitems) : gitems[i].value # gitems[j].value

\* The positions iter_grouped is to yield: those not on a + boundary.
Interior == {xyz \in GridCells : \A a \in 1..3 : xyz[a] + 1 < GridSide}

\* C16: Grid::iter_grouped yields, in storage order, exactly the
\* (2^lod - 1)^3 positions with x+1, y+1, z+1 < 2^lod; the mapper entry for
\* direction d is the cell at (x, y, z) + breakdown(d); no cell outside the
\* grid is read.
C16_GroupedInterior ==
    git.kind = "grouped" =>
        /\ Len(gitems) = Cardinality({xyz \in Interior : StorageOffset(xyz) < git.location})
        /\ git.ended => Len(gitems) = (GridSide - 1) * (GridSide - 1) * (GridSide - 1)
        /\ gitems # <<>> =>
               LET item == gitems[Len(gitems)]
               IN  /\ item.coords \in Interior
                   /\ ~git.ended => StorageOffset(item.coords) = git.location - 1
                   /\ Len(gitems) > 1 =>
                          StorageOffset(gitems[Len(gitems) - 1].coords)
                              < StorageOffset(item.coords)
                   /\ ~item.oob
                   /\ \A d \in Dirs :
                          LET off == Direction_breakdown(d)
                              at == <<item.coords[1] + off[1], item.coords[2] + off[2],
                                      item.coords[3] + off[3]>>
                          IN  /\ at \in GridCells
                              /\ item.mapper[d + 1] = grid.data[StorageOffset(at)]

\* Grid::iter_grouped has walked a grid of lod 2 to its end: 27 cells, one of
\* them with two different corners.
C16_Witness ==
    /\ git.kind = "grouped" /\ git.ended /\ grid.lod = 2
    /\ Len(gitems) = 27
    /\ \E i \in 1..Len(gitems) : gitems[i].mapper[1] # gitems[i].mapper[8]

\* The voxel one get_child(d) step below v when v is not the root: the child
\* node, the path extended by d and the bounds halved toward d where the
\* position of v is subdivided, v itself where it is a leaf.
StepBelow(v, d) ==
    IF Voxel_is_leaf(chunk, v) THEN v
    ELSE [node |-> Append(v.node, get(v.index_path).dir),
          index_path |-> put(v.index_path, d).path,
          bounds |-> Bounds_half(v.bounds, d)]

\* The voxel one get_child(d) step below the root voxel: the root node with
\* the path <<d>> and the half of the unit cube toward d.
StepBelowRoot(v, d) ==
    [node |-> v.node, index_path |-> PathOf(<<d>>), bounds |-> Bounds_half(v.bounds, d)]

\* No path holds more than MAX_SIZE directions: the comparison with
\* chunk.get is over the navigations of 1..MAX_SIZE steps.
ValueAgrees ==
    (vsteps # <<>> /\ Len(vsteps) <= MAX_SIZE) =>
        LET out == Voxel_get_value(chunk, vox)
        IN  ~out.abort /\ out.value = Chunk_get(chunk, PathOf(vsteps))

\* C17 as stated: after get_child(d1), ..., get_child(dk) from the root voxel,
\* get_value equals chunk.get of the path d1..dk; get_child(d) on a
\* subdivided position gives the child node, the path extended by d and the
\* bounds halved toward d, and on a leaf gives the same node, path and bounds.
C17_AsStated ==
    /\ ValueAgrees
    /\ vcall.op = "get_child" =>
           IF Voxel_is_leaf(chunk, vcall.before) THEN vox = vcall.before
           ELSE IF Voxel_is_root(vcall.before)
           THEN vox = StepBelowRoot(vcall.before, vcall.d)
           ELSE vox = StepBelow(vcall.before, vcall.d)

\* C17 amended: the same, except that get_child(d) on the root voxel always
\* gives the root node with the path <<d>> and the bounds halved toward d,
\* whether the root is subdivided or a leaf.
C17_VoxelNavigation ==
    /\ ValueAgrees
    /\ vcall.op = "get_child" =>
           IF Voxel_is_root(vcall.before)
           THEN vox = StepBelowRoot(vcall.before, vcall.d)
           ELSE vox = StepBelow(vcall.before, vcall.d)

\* Navigation went through a child node and then stopped on a leaf: the
\* last get_child returned the voxel it was called on, two levels down.
C17_Witness ==
    /\ vcall.op = "get_child"
    /\ Len(vsteps) >= 3
    /\ Len(vox.node) >= 1
    /\ vox = vcall.before
    /\ Voxel_get_value(chunk, vox).value # Default

Reverse(s) == [i \in 1..Len(s) |-> s[Len(s) + 1 - i]]

\* The path left after n pops.
RECURSIVE PopN(_, _)
PopN(w, n) == IF n = 0 THEN w ELSE PopN(pop(w).path, n - 1)

\* What iterating the path built so far is to yield.
Expected == IF pbuilt.mode = "push" THEN Reverse(pbuilt.dirs) ELSE pbuilt.dirs

\* C18: iterating an IndexPath is repeated peek then pop; it yields len(P)
\* directions and then ends; after push(d1), ..., push(dk) from new() it
\* yields dk, ..., d1, and after put(d1), ..., put(dk) it yields d1, ..., dk.
C18_IterationOrder ==
    pyield.active =>
        LET n == Len(pyield.items)
        IN  /\ n <= len(pyield.start)
            /\ pyield.ended => n = len(pyield.start)
            /\ pyield.items = SubSeq(Expected, 1, n)
            /\ pyield.ended => pyield.items = Expected
            /\ pword = PopN(pyield.start, n)
            /\ n > 0 => pyield.items[n] = peek(PopN(pyield.start, n - 1)).dir

\* Seven pushes of different directions iterated to the end, as in
\* tests::test_iterator: the first direction pushed came out last.
C18_Witness ==
    /\ pyield.ended
    /\ pbuilt.mode = "push"
    /\ Len(pyield.items) = 7
    /\ pyield.items[1] # pyield.items[7]
    /\ pyield.items[7] = pbuilt.dirs[1]

\* C19: len(P) = 21 - leading_zeros(word(P)) / 3, and this is the number of
\* directions P stores: 0 for new(), k after k pushes, for k = 0..21.
C19_LenCountsDirections ==
    /\ WellFormed(pword)
    /\ len(pword) = 21 - (leading_zeros(pword) \div 3)
    /\ len(pword) = Stored(pword)
    /\ len(pword) = Len(pbuilt.dirs) - Len(pyield.items)
    /\ pbuilt.mode = "new" => len(pword) = 0

\* A path of 21 pushes: it is full and its len is 21.
C19_Witness ==
    /\ pbuilt.mode = "push" /\ ~pyield.active
    /\ Len(pbuilt.dirs) = MAX_SIZE
    /\ len(pword) = MAX_SIZE
    /\ is_full(pword)

\* The directions a path stores, read root first (the order of peek and pop).
Octants(w) == [i \in 1..Stored(w) |-> Digit(w, i)]

\* p and q address different sub-cubes: neither is a prefix of the other.
Apart(p, q) == ~IsPrefix(Octants(p), Octants(q)) /\ ~IsPrefix(Octants(q), Octants(p))

\* The paths get is probed with: down to three levels in octants 0 and 7.
ProbePaths ==
    {PathOf(s) : s \in UNION {[1..n -> {FrontLeftBottom, SpineDir}] : n \in 1..3}}

\* C20: set(p, v) leaves get(q) as it was for every path q such that neither
\* p nor q is a prefix of the other; a collapse the call triggers discards no
\* value stored under a sibling octant's subtree.
C20_SetFrame ==
    [][last'.op = "set" =>
          \A q \in ProbePaths :
              Apart(last'.path, q) => Chunk_get(chunk', q) = Chunk_get(chunk, q)]_vars

\* C21: calling next() on iter_leaf again and again never aborts, emits
\* finitely many voxels (no more than the tree has absent-child slots), and
\* once it has returned the end marker it returns it on every later call.
C21_LeafIterationEnds ==
    /\ itStatus # "aborted"
    /\ itStatus # "none" => Len(emitted) <= Len(LeafSlots(chunk.root, <<>>, 0))
    /\ itStatus = "ended" => ChunkLeafIterator_next(chunk, iter).kind = "None"

\* C22: the index path of every voxel iter_leaf emits is the sequence of
\* octants from the root to the emitted slot (the path built by pushing them
\* deepest first, its length the slot's depth), and chunk.get of that path
\* is the voxel's get_value.
C22_EmittedPathNamesSlot ==
    \A i \in 1..Len(emitted) :
        LET slots == LeafSlots(chunk.root, <<>>, 0)
            v == emitted[i]
        IN  /\ i <= Len(slots)
            /\ v.index_path = PathOf(Append(slots[i].node, slots[i].octant))
            /\ len(v.index_path) = Len(slots[i].node) + 1
            /\ Chunk_get(chunk, v.index_path) = Voxel_get_value(chunk, v).value

\* C23: densification follows the axis convention of paths and Bounds at
\* every level: for every path p of length lod, the grid cell at
\* Bounds::from(p).get_position_with_gridsize(2^lod) holds chunk.get(p).
C23_GridFollowsBounds ==
    (grid # NoGrid /\ git.kind = "none") =>
        \A s \in [1..grid.lod -> Dirs] :
            LET p == PathOf(s)
                at == Bounds_get_position_with_gridsize(Bounds_from(p), GridSide)
            IN  /\ at \in GridCells
                /\ grid.data[StorageOffset(at)] = Chunk_get(chunk, p)

\* C24: every chunk WorldBuilder.build returns is in collapsed form: no node
\* has a present child whose eight data entries are all equal.
C24_BuiltChunkCollapsed ==
    build.status = "returned" => Collapsed(build.chunk.root)

\* p is a proper prefix of q, both read root first.
Extends(q, p) == IsPrefix(Octants(p), Octants(q)) /\ Stored(p) < Stored(q)

\* C25: after set(p, v), get(q) = v for every path q that extends p, also
\* when the octant p addresses was subdivided before the call.
C25_CoarseSetOverwrites ==
    last.op = "set" =>
        \A q \in ProbePaths :
            Extends(q, last.path) => Chunk_get(chunk, q) = last.value

====
